---- MODULE Spec2Model ----
(***************************************************************************)
(* A model of conan_submit.py: the pipeline main -> get_graph ->           *)
(* submit_graph (process_graph, build_tree, add_relationship, payload      *)
(* assembly, send).                                                        *)
(*                                                                         *)
(* Python values are modelled as follows.                                  *)
(*   str    a sequence of tokens; a token is a separator character         *)
(*          ("/", "#", "@", ...) or a maximal run of other characters, so  *)
(*          two strings are equal exactly when their sequences are.        *)
(*   JSON   a record [t, n, s, m]: t the type tag, n the value of an int,  *)
(*          s the tokens of a str, m the items of a dict.                  *)
(*   dict   a sequence of items [k, v] with distinct keys, in insertion    *)
(*          order (Python dicts keep insertion order).                     *)
(***************************************************************************)
EXTENDS Integers, Sequences, FiniteSets, TLC

(* ------------------------------------------------------------------ *)
(* Bounds of the model.                                                 *)
(* ------------------------------------------------------------------ *)

\* Graph nodes have the ids 0..MaxNode.
MaxNode == 2

\* A graph of the structural family has at most MaxEdges dependency edges.
MaxEdges == 3

(* ------------------------------------------------------------------ *)
(* JSON values and dicts.                                               *)
(* ------------------------------------------------------------------ *)

JNull == [t |-> "null", n |-> 0, s |-> <<>>, m |-> <<>>]

JInt(n) == [t |-> "int", n |-> n, s |-> <<>>, m |-> <<>>]

JStr(s) == [t |-> "str", n |-> 0, s |-> s, m |-> <<>>]

JDict(m) == [t |-> "dict", n |-> 0, s |-> <<>>, m |-> m]

Item(k, v) == [k |-> k, v |-> v]

\* key in d
Has(d, k) == \E i \in 1..Len(d) : d[i].k = k

\* d[key], for a key that is in d
Get(d, k) == d[CHOOSE i \in 1..Len(d) : d[i].k = k].v

\* d[key] = value: an existing key keeps its position
Put(d, k, v) ==
    IF Has(d, k)
    THEN [i \in 1..Len(d) |-> IF d[i].k = k THEN Item(k, v) ELSE d[i]]
    ELSE Append(d, Item(k, v))

Keys(d) == [i \in 1..Len(d) |-> d[i].k]

KeySet(d) == {d[i].k : i \in 1..Len(d)}

(* ------------------------------------------------------------------ *)
(* Strings.                                                             *)
(* ------------------------------------------------------------------ *)

\* sep in s
Contains(s, sep) == \E i \in 1..Len(s) : s[i] = sep

RECURSIVE Split(_, _)
\* s.split(sep): the list of the parts of s between the occurrences of sep
Split(s, sep) ==
    IF ~Contains(s, sep) THEN <<s>>
    ELSE LET i == CHOOSE j \in 1..Len(s) :
                      s[j] = sep /\ \A h \in 1..(j - 1) : s[h] # sep
         IN <<SubSeq(s, 1, i - 1)>> \o Split(SubSeq(s, i + 1, Len(s)), sep)

\* The decimal numerals int() and str() convert between.
Numerals == <<"0", "1", "2", "3", "4", "5", "6", "7", "8", "9">>

IsNumeral(tok) == \E i \in 1..Len(Numerals) : Numerals[i] = tok

NumeralValue(tok) == (CHOOSE i \in 1..Len(Numerals) : Numerals[i] = tok) - 1

\* int(v): the value, or the exception int() raises
PyInt(v) ==
    CASE v.t = "int" -> [err |-> "none", n |-> v.n]
      [] v.t = "str" ->
            IF Len(v.s) = 1 /\ IsNumeral(v.s[1])
            THEN [err |-> "none", n |-> NumeralValue(v.s[1])]
            ELSE [err |-> "ValueError", n |-> 0]
      [] OTHER -> [err |-> "TypeError", n |-> 0]

\* str(v) of a JSON scalar, as an f-string or a query value renders it
PyStr(v) ==
    CASE v.t = "null" -> <<"None">>
      [] v.t = "int" -> <<ToString(v.n)>>
      [] v.t = "str" -> v.s
      [] OTHER -> <<"{", "}">>

(* ------------------------------------------------------------------ *)
(* The module's constant tables.                                        *)
(* ------------------------------------------------------------------ *)

\* keys that are mapped to different names
conan_mapped_metadata_keys == <<Item("sha", "rrev")>>

\* keys that are complex objects
conan_complex_keys ==
    {"ref", "settings", "cpp_info", "options_definitions", "default_options", "options"}

\* keys already handled by previous processing
conan_handled_keys == {"dependencies"}

\* keys not OK for purl submission in Dependency Graph
conan_not_ok_keys == <<"386">>

\* The parent of a node that is attached nowhere (anytree: parent is None).
NoParent == -2

\* The synthetic root anytree.AnyNode(name="packages"); it has no id_.
TreeRoot == -1

(* ------------------------------------------------------------------ *)
(* process_graph.                                                       *)
(* ------------------------------------------------------------------ *)

RECURSIVE CopyItems(_, _, _)
\* for key, value in items: if key not in excluded and value is not None:
\*     metadata[key] = value
CopyItems(metadata, items, excluded) ==
    IF items = <<>> THEN metadata
    ELSE LET it == Head(items)
             md == IF it.k \notin excluded /\ it.v.t # "null"
                   THEN Put(metadata, it.k, it.v)
                   ELSE metadata
         IN CopyItems(md, Tail(items), excluded)

RECURSIVE IntList(_)
\* [int(id) for id in keys]: the list, or the exception of the first key
\* int() rejects
IntList(keys) ==
    IF keys = <<>> THEN [err |-> "none", l |-> <<>>]
    ELSE LET h == PyInt(JStr(<<Head(keys)>>))
             r == IntList(Tail(keys))
         IN IF h.err # "none" THEN [err |-> h.err, l |-> <<>>]
            ELSE IF r.err # "none" THEN r
            ELSE [err |-> "none", l |-> <<h.n>> \o r.l]

Package(id_, name, version, sha, scope, metadata, dependencies) ==
    [id_ |-> id_, name |-> name, version |-> version, sha |-> sha,
     scope |-> scope, relationship |-> JNull, metadata |-> metadata,
     dependencies |-> dependencies, parent |-> NoParent]

NoPackage == Package(0, <<>>, JNull, JNull, JNull, <<>>, <<>>)

Skip == [st |-> "skip", pkg |-> NoPackage]

Raise(exc) == [st |-> exc, pkg |-> NoPackage]

\* The metadata of an entry: settings, then options, then the top-level keys.
EntryMetadata(entry) ==
    LET m1 == IF Has(entry, "settings")
              THEN CopyItems(<<>>, Get(entry, "settings").m, {})
              ELSE <<>>
        m2 == IF Has(entry, "options")
              THEN CopyItems(m1, Get(entry, "options").m, {})
              ELSE m1
    IN CopyItems(m2, entry, conan_complex_keys)

\* scope = "development" if metadata["context"] == "build" else "runtime"
EntryScope(metadata) ==
    IF Has(metadata, "context")
    THEN IF Get(metadata, "context") = JStr(<<"build">>)
         THEN JStr(<<"development">>)
         ELSE JStr(<<"runtime">>)
    ELSE JNull

\* The body of the loop of process_graph for one entry: "skip" for continue,
\* the name of the exception it raises, or "ok" with the Package built.
ProcessEntry(entry) ==
    IF ~Has(entry, "id") THEN Skip
    ELSE LET id == PyInt(Get(entry, "id")) IN
    IF id.err # "none" THEN Raise(id.err)
    ELSE IF ~Has(entry, "ref") THEN Skip
    ELSE LET ref == Get(entry, "ref") IN
    IF ref.t # "str" THEN Raise("TypeError")
    ELSE LET parts == IF Contains(ref.s, "/") THEN Split(ref.s, "/") ELSE <<ref.s>> IN
    IF Len(parts) > 2 THEN Raise("ValueError")
    ELSE LET name == parts[1]
             hasRem == Len(parts) = 2
             vparts == IF hasRem /\ Contains(parts[2], "#")
                       THEN Split(parts[2], "#")
                       ELSE <<>> IN
    IF Len(vparts) > 2 THEN Raise("ValueError")
    ELSE LET version == IF vparts # <<>> THEN JStr(vparts[1])
                        ELSE IF hasRem THEN JStr(parts[2]) ELSE JNull
             sha == IF vparts # <<>> THEN JStr(vparts[2]) ELSE JNull
             metadata == EntryMetadata(entry)
             deps == IF Has(entry, "dependencies")
                     THEN IntList(Keys(Get(entry, "dependencies").m))
                     ELSE [err |-> "none", l |-> <<>>] IN
    IF deps.err # "none" THEN Raise(deps.err)
    ELSE [st |-> "ok",
          pkg |-> Package(id.n, name, version, sha, EntryScope(metadata),
                          metadata, deps.l)]

RECURSIVE ProcessNodes(_, _)
\* The loop of process_graph over graph.items(), from the table pk. The only
\* exception the loop catches is KeyError, which no step of the body raises
\* for an entry that is a dict, so any other exception leaves the loop.
ProcessNodes(nodes, pk) ==
    IF nodes = <<>> THEN [err |-> "none", packages |-> pk]
    ELSE LET r == ProcessEntry(Head(nodes).v)
             index == PyInt(JStr(<<Head(nodes).k>>))
         IN CASE r.st = "skip" -> ProcessNodes(Tail(nodes), pk)
              [] r.st = "ok" ->
                    IF index.err # "none"
                    THEN [err |-> index.err, packages |-> pk]
                    ELSE ProcessNodes(Tail(nodes), Put(pk, index.n, r.pkg))
              [] OTHER -> [err |-> r.st, packages |-> pk]

process_graph(nodes) == ProcessNodes(nodes, <<>>)

(* ------------------------------------------------------------------ *)
(* build_tree and add_relationship. The tree is held in the parent      *)
(* field of the packages, as anytree.NodeMixin holds it (the children   *)
(* list of a node is the nodes whose parent it is).                     *)
(* ------------------------------------------------------------------ *)

RECURSIVE InPath(_, _, _)
\* self is node or an ancestor of node (node.iter_path_reverse())
InPath(pk, node, self) ==
    IF node = self THEN TRUE
    ELSE IF node = TreeRoot \/ node = NoParent THEN FALSE
    ELSE InPath(pk, Get(pk, node).parent, self)

\* package.parent = value, the setter of anytree.NodeMixin: nothing when the
\* parent is value already; LoopError when value is the package or one of
\* its descendants; else the package is detached from its old parent and
\* attached to value.
SetParent(pk, index, value) ==
    LET package == Get(pk, index) IN
    IF package.parent = value THEN [err |-> "none", packages |-> pk]
    ELSE IF InPath(pk, value, index) THEN [err |-> "LoopError", packages |-> pk]
    ELSE [err |-> "none",
          packages |-> Put(pk, index, [package EXCEPT !.parent = value])]

\* The lookup packages[index] in place of packages.get(index)
MissingPackageRaises(st, index) == [st EXCEPT !.err = "KeyError"]

\* The else branch of build_tree: LOG.error("no package for index %s", index)
MissingPackage(st, index) == [st EXCEPT !.log = Append(@, index)]

RECURSIVE BuildTree(_, _, _)
RECURSIVE BuildChildren(_, _, _)
\* build_tree(tree, packages, index) from the state st = [packages, log, err];
\* log holds the indexes reported by LOG.error("no package for index %s").
BuildTree(st, tree, index) ==
    IF st.err # "none" THEN st
    ELSE IF ~Has(st.packages, index)
    THEN MissingPackage(st, index)
    ELSE LET r == SetParent(st.packages, index, tree) IN
         IF r.err # "none" THEN [st EXCEPT !.err = r.err]
         ELSE BuildChildren([st EXCEPT !.packages = r.packages], index,
                            Get(st.packages, index).dependencies)

\* for child_index in package.dependencies: build_tree(package, packages, child_index)
BuildChildren(st, index, deps) ==
    IF deps = <<>> \/ st.err # "none" THEN st
    ELSE BuildChildren(BuildTree(st, index, Head(deps)), index, Tail(deps))

build_tree(pk) == BuildTree([packages |-> pk, log |-> <<>>, err |-> "none"], TreeRoot, 0)

\* package is in tree.descendants of the synthetic root
IsDescendant(pk, index) == 
    /\ Get(pk, index).parent # NoParent
    /\ InPath(pk, Get(pk, index).parent, TreeRoot)

\* getattr(package.parent, "id_", 0)
ParentId(pk, index) ==
    LET p == Get(pk, index).parent IN
    IF p = TreeRoot \/ p = NoParent THEN 0 ELSE Get(pk, p).id_

\* Relationship with the parent compared to the synthetic root alone
RelationshipOfTreeRootOnly(pk, index) ==
    IF Get(pk, index).parent = TreeRoot THEN JStr(<<"direct">>) ELSE JStr(<<"indirect">>)

Relationship(pk, index) ==
    IF ParentId(pk, index) = 0 THEN JStr(<<"direct">>) ELSE JStr(<<"indirect">>)

\* add_relationship(tree): every descendant of the synthetic root is labelled.
\* No label changes the tree, so the order of the pass does not matter.
add_relationship(pk) ==
    [i \in 1..Len(pk) |->
        IF IsDescendant(pk, pk[i].k)
        THEN Item(pk[i].k, [pk[i].v EXCEPT !.relationship = Relationship(pk, pk[i].k)])
        ELSE pk[i]]

(* ------------------------------------------------------------------ *)
(* make_purl and make_dependency.                                       *)
(* ------------------------------------------------------------------ *)

\* furl percent-encodes the characters of a path segment that are not safe
\* in one; of the tokens of the model those are "#" and "?".
QuoteSegment(s) ==
    [i \in 1..Len(s) |->
        CASE s[i] = "#" -> "%23"
          [] s[i] = "?" -> "%3F"
          [] OTHER -> s[i]]

RECURSIVE QueryString(_)
\* The query of a furl: key=value pairs joined by "&".
QueryString(query) ==
    IF query = <<>> THEN <<>>
    ELSE <<Head(query).k, "=">> \o PyStr(Head(query).v)
         \o (IF Tail(query) = <<>> THEN <<>> ELSE <<"&">> \o QueryString(Tail(query)))

RECURSIVE QueryPlain(_, _)
\* for key, value in package.metadata.items(): the keys that are neither
\* mapped nor handled nor not OK are copied to query
QueryPlain(query, items) ==
    IF items = <<>> THEN query
    ELSE LET it == Head(items)
             q == IF /\ it.k \notin KeySet(conan_mapped_metadata_keys)
                     /\ it.k \notin conan_handled_keys
                     /\ it.k \notin {conan_not_ok_keys[i] : i \in 1..Len(conan_not_ok_keys)}
                  THEN Put(query, it.k, it.v)
                  ELSE query
         IN QueryPlain(q, Tail(items))

RECURSIVE QueryMapped(_, _, _)
\* for key, mapped_name in conan_mapped_metadata_keys.items():
\*     if key in package.metadata: query[mapped_name] = package.metadata.get(key)
QueryMapped(query, mapped, metadata) ==
    IF mapped = <<>> THEN query
    ELSE LET it == Head(mapped)
             q == IF Has(metadata, it.k)
                  THEN Put(query, it.v, Get(metadata, it.k))
                  ELSE query
         IN QueryMapped(q, Tail(mapped), metadata)

PurlQuery(package) ==
    QueryMapped(QueryPlain(<<>>, package.metadata), conan_mapped_metadata_keys,
                package.metadata)

\* make_purl(package, dep): the Package URL, as a string
make_purl(package, dep) ==
    LET path == <<"conan", "/">> \o QuoteSegment(package.name) \o <<"@">>
                \o QuoteSegment(PyStr(package.version))
        query == IF dep THEN <<>> ELSE PurlQuery(package)
    IN <<"pkg", ":">> \o path
       \o (IF query = <<>> THEN <<>> ELSE <<"?">> \o QueryString(query))

\* package.children
Children(pk, index) == {pk[i].k : i \in {j \in 1..Len(pk) : pk[j].v.parent = index}}

\* The lists list(S) can be of a set S of str: the iteration order of a set
\* of str follows the hashes of its elements, which the interpreter salts
\* per process (hash randomization).
ListsOf(S) ==
    {l \in [1..Cardinality(S) -> S] : \A i, j \in 1..Cardinality(S) : l[i] = l[j] => i = j}

\* list({...}) in a process whose hash salt is seed: of the orders a salt can
\* give, the model keeps one enumeration and its reverse.
SetToList(S, seed) ==
    LET l == CHOOSE x \in ListsOf(S) : TRUE IN
    IF seed % 2 = 0 THEN l ELSE [i \in 1..Len(l) |-> l[Len(l) + 1 - i]]

\* The whole metadata of the package copied to the entry
EntryMetadataWhole(data, keys, metadata) ==
    IF metadata = <<>> THEN data ELSE Put(data, "metadata", JDict(metadata))

RECURSIVE EntryMetadataField(_, _, _)
\* for key in conan_not_ok_keys: if key in package.metadata:
\*     data["metadata"] = {}; data["metadata"][key] = package.metadata[key]
EntryMetadataField(data, keys, metadata) ==
    IF keys = <<>> THEN data
    ELSE EntryMetadataField(
            IF Has(metadata, Head(keys))
            THEN Put(data, "metadata",
                     JDict(<<Item(Head(keys), Get(metadata, Head(keys)))>>))
            ELSE data,
            Tail(keys), metadata)

\* make_dependency(package): the entry, a dict. "package_url" is a str;
\* "dependencies" is held apart in deps, being a list of str.
make_dependency(pk, index, seed) ==
    LET package == Get(pk, index)
        d1 == <<Item("package_url", JStr(make_purl(package, FALSE)))>>
        d2 == IF package.scope.t # "null" THEN Put(d1, "scope", package.scope) ELSE d1
        d3 == IF package.relationship.t # "null"
              THEN Put(d2, "relationship", package.relationship) ELSE d2
    IN [data |-> EntryMetadataField(d3, conan_not_ok_keys, package.metadata),
        dependencies |->
            SetToList({make_purl(Get(pk, c), TRUE) : c \in Children(pk, index)}, seed)]

(* ------------------------------------------------------------------ *)
(* The inputs of a run: the node map of the resolver's graph, and the  *)
(* arguments and environment of the process.                            *)
(* ------------------------------------------------------------------ *)

Names == <<"libA", "libB", "libC", "libD", "libE">>

DefaultName(i) == IF i = 0 THEN "conanfile" ELSE Names[i]

DefaultRef(i) ==
    IF i = 0 THEN <<"conanfile">> ELSE <<Names[i], "/", "1.2", "#", "abc">>

\* "dependencies": {"<id>": {...}, ...} for the ids of l, in that order
DepsDict(l) == JDict([j \in 1..Len(l) |-> Item(Numerals[l[j] + 1], JDict(<<>>))])

\* A well-formed node, as the resolver emits it: its key is its id.
Node(i, deps) ==
    Item(Numerals[i + 1],
         <<Item("id", JInt(i)), Item("ref", JStr(DefaultRef(i))),
           Item("dependencies", DepsDict(deps))>>)

\* The dependencies of node i in the edge list es: the targets of its edges
DepsOf(es, i) ==
    LET mine == SelectSeq(es, LAMBDA e : e[1] = i)
    IN [j \in 1..Len(mine) |-> mine[j][2]]

\* The graph of the nodes 0..n with the edges es
GraphOf(n, es) == [j \in 1..(n + 1) |-> Node(j - 1, DepsOf(es, j - 1))]

\* The edge lists of the structural family: at most MaxEdges distinct edges
\* from a node of 0..n to an id of 0..n+1; no node has the id n+1.
EdgeLists(n) ==
    UNION {{es \in [1..k -> (0..n) \X (0..(n + 1))] :
                \A a, b \in 1..k : es[a] = es[b] => a = b} : k \in 0..MaxEdges}

\* The graph of section 8 of the specification: node 0, ref "conanfile",
\* lists node 1; node 1 is libA/1.2#abc and has no dependencies.
ExampleGraph == GraphOf(1, <<<<0, 1>>>>)

\* The edges of the graph whose one node varies: node 0 lists every other node.
StarEdges == [j \in 1..MaxNode |-> <<0, j>>]

IdVariants == {"int", "str", "absent", "bad", "null"}

RefVariants ==
    {"full", "absent", "nover", "nosha", "hashonly", "twoslash", "twohash", "null"}

ContextVariants == {"absent", "build", "host"}

ExtraVariants == {"none", "settings", "keys", "all"}

VariantId(i, v) ==
    CASE v = "int" -> <<Item("id", JInt(i))>>
      [] v = "str" -> <<Item("id", JStr(<<Numerals[i + 1]>>))>>
      [] v = "bad" -> <<Item("id", JStr(<<"x">>))>>
      [] v = "null" -> <<Item("id", JNull)>>
      [] OTHER -> <<>>

VariantRef(i, v) ==
    LET nm == DefaultName(i) IN
    CASE v = "full" -> <<Item("ref", JStr(<<nm, "/", "1.2", "#", "abc">>))>>
      [] v = "nover" -> <<Item("ref", JStr(<<nm>>))>>
      [] v = "nosha" -> <<Item("ref", JStr(<<nm, "/", "1.2">>))>>
      [] v = "hashonly" -> <<Item("ref", JStr(<<nm, "#", "abc">>))>>
      [] v = "twoslash" -> <<Item("ref", JStr(<<nm, "/", "1.2", "/", "x">>))>>
      [] v = "twohash" -> <<Item("ref", JStr(<<nm, "/", "1.2", "#", "abc", "#", "d">>))>>
      [] v = "null" -> <<Item("ref", JNull)>>
      [] OTHER -> <<>>

VariantContext(v) ==
    IF v = "absent" THEN <<>> ELSE <<Item("context", JStr(<<v>>))>>

VariantExtra(v) ==
    LET settings == <<Item("settings",
                           JDict(<<Item("arch", JStr(<<"x86_64">>)), Item("os", JNull)>>)),
                      Item("options", JDict(<<Item("shared", JStr(<<"False">>))>>))>>
        keys == <<Item("386", JStr(<<"x">>)), Item("sha", JStr(<<"f00">>)),
                  Item("package_id", JNull)>>
    IN CASE v = "settings" -> settings
         [] v = "keys" -> keys
         [] v = "all" -> settings \o keys
         [] OTHER -> <<>>

\* Node i with the fields the variants choose, its dependencies deps
VariantNode(i, idv, refv, ctxv, extrav, deps) ==
    Item(Numerals[i + 1],
         VariantId(i, idv) \o VariantRef(i, refv) \o VariantContext(ctxv)
         \o VariantExtra(extrav) \o <<Item("dependencies", DepsDict(deps))>>)

\* The star graph with node k replaced by a variant
VariantGraph(k, idv, refv, ctxv, extrav) ==
    [j \in 1..(MaxNode + 1) |->
        IF j - 1 = k
        THEN VariantNode(k, idv, refv, ctxv, extrav, DepsOf(StarEdges, k))
        ELSE Node(j - 1, DepsOf(StarEdges, j - 1))]

\* The arguments and environment of a run in which nothing is wrong:
\* no --conanfile, a conanfile found in the repository, the resolver
\* succeeding, GITHUB_REF and GITHUB_TOKEN set, a live run.
DefaultEnv ==
    [remote |-> "ok", conanfileArg |-> FALSE, found |-> TRUE, graphfile |-> "none",
     readable |-> TRUE, openOk |-> TRUE, rc |-> "zero", stdoutJson |-> TRUE,
     shapeOk |-> TRUE, manifestInRepo |-> TRUE,
     shaArg |-> FALSE, githubSha |-> FALSE, githubRef |-> TRUE, detached |-> FALSE,
     githubToken |-> TRUE, ghToken |-> FALSE, remotePathOk |-> TRUE,
     conanVersionOk |-> TRUE, dryRun |-> FALSE]

\* What get_graph meets: --conanfile, find_conanfile, --graphfile and the
\* state of that file, os.access, open, the resolver's exit and output.
ResolverEnvs ==
    {[DefaultEnv EXCEPT !.conanfileArg = a, !.found = f, !.graphfile = g,
                        !.readable = r, !.openOk = o, !.rc = c, !.stdoutJson = j,
                        !.shapeOk = s, !.dryRun = d] :
        a \in BOOLEAN, f \in BOOLEAN, g \in {"none", "ok", "ioerror", "badjson"},
        r \in BOOLEAN, o \in BOOLEAN, c \in {"zero", "nofile", "other"},
        j \in BOOLEAN, s \in BOOLEAN, d \in BOOLEAN}

\* What main and submit_graph meet: the remote, --sha, GITHUB_SHA, GITHUB_REF,
\* a detached HEAD, the two token variables, the remote's path, conan
\* --version, the manifest's place, --dry-run.
SubmitEnvs ==
    {[DefaultEnv EXCEPT !.remote = m, !.shaArg = a, !.githubSha = b,
                        !.githubRef = r, !.detached = h, !.githubToken = t,
                        !.ghToken = u, !.remotePathOk = p, !.conanVersionOk = v,
                        !.manifestInRepo = i, !.dryRun = d] :
        m \in {"ok", "other", "none"}, a \in BOOLEAN, b \in BOOLEAN, r \in BOOLEAN,
        h \in BOOLEAN, t \in BOOLEAN, u \in BOOLEAN, p \in BOOLEAN, v \in BOOLEAN,
        i \in BOOLEAN, d \in BOOLEAN}

(* ------------------------------------------------------------------ *)
(* The state of a run.                                                  *)
(* ------------------------------------------------------------------ *)

VARIABLES
    graph,      \* the node map graph["graph"]["nodes"] the resolver yields
    env,        \* the arguments and environment of the process
    pc,         \* where the run is
    packages,   \* packages_dict: index -> Package, in insertion order
    log,        \* the indexes build_tree reported as having no package
    exc,        \* the exception that ended the run and the call that raised it
    payload,    \* <<>> until the payload is assembled, then <<the payload>>
    sent,       \* the number of calls of session.send
    run,        \* the number of the run of the program on these inputs
    prev        \* the payload of the run before, when there was one

vars == <<graph, env, pc, packages, log, exc, payload, sent, run, prev>>

NoException == [type |-> "none", in |-> "none"]

Exception(type, in) == [type |-> type, in |-> in]

\* The salts of str hashes a process can start with.
HashSeeds == {0, 1}

\* The values of uuid.uuid4().hex and of datetime.datetime.now().isoformat().
JobIds == {"uuid-a", "uuid-b"}

Clock == {"t1", "t2"}

\* get_graph: "conanfile" when the graph comes from the resolver run on the
\* conanfile, "graphfile" when it is read from --graphfile, "none" for
\* (None, None).
get_graph(e) ==
    IF ~e.conanfileArg /\ ~e.found
    THEN IF e.graphfile = "ok" THEN "graphfile" ELSE "none"
    ELSE IF ~e.readable THEN "none"
    ELSE IF ~e.openOk THEN "none"
    ELSE IF e.rc = "nofile" THEN "none"
    ELSE IF e.stdoutJson THEN "conanfile" ELSE "none"

\* repo_commit of submit_graph
RepoCommit(e) ==
    IF e.shaArg THEN "sha-arg" ELSE IF e.githubSha THEN "sha-env" ELSE "sha-head"

\* repo_ref of submit_graph, for a run that has one
RepoRef(e) == IF e.githubRef THEN "ref-env" ELSE "refs/heads/branch"

\* The "resolved" dict of the payload: every package of packages_dict whose
\* name is not "conanfile", keyed by its name.
RECURSIVE Resolved(_, _, _, _)
Resolved(acc, pk, i, seed) ==
    IF i > Len(pk) THEN acc
    ELSE Resolved(IF pk[i].v.name # <<"conanfile">>
                  THEN Put(acc, pk[i].v.name, make_dependency(pk, pk[i].k, seed))
                  ELSE acc,
                  pk, i + 1, seed)

\* The payload submit_graph assembles
Snapshot(e, pk, seed, jobid, now) ==
    [version |-> 0,
     sha |-> RepoCommit(e),
     ref |-> RepoRef(e),
     job |-> [correlator |-> "conan-dependency-submission", id |-> jobid],
     detector |-> [name |-> "conan",
                   version |-> IF e.conanVersionOk THEN "2.0" ELSE "None",
                   url |-> "https://conan.io/"],
     scanned |-> now,
     manifest |-> IF get_graph(e) = "graphfile" THEN "graph.json" ELSE "conanfile.txt",
     resolved |-> Resolved(<<>>, pk, 1, seed)]

Start(g, e) ==
    /\ graph = g
    /\ env = e
    /\ pc = "main"
    /\ packages = <<>>
    /\ log = <<>>
    /\ exc = NoException
    /\ payload = <<>>
    /\ sent = 0
    /\ run = 1
    /\ prev = <<>>

\* Runs on every graph of the structural family, with nothing else wrong.
InitStructure ==
    \E n \in 0..MaxNode : \E es \in EdgeLists(n) : Start(GraphOf(n, es), DefaultEnv)

\* Runs on the star graph with one node varied, with nothing else wrong.
InitVariant ==
    \E k \in 0..MaxNode, idv \in IdVariants, refv \in RefVariants,
       ctxv \in ContextVariants, extrav \in ExtraVariants :
        Start(VariantGraph(k, idv, refv, ctxv, extrav), DefaultEnv)

\* Runs on the example graph in every environment.
InitEnv ==
    \E e \in ResolverEnvs \cup SubmitEnvs : Start(ExampleGraph, e)

Init == InitStructure \/ InitVariant \/ InitEnv

(* ------------------------------------------------------------------ *)
(* The steps of main and submit_graph.                                  *)
(* ------------------------------------------------------------------ *)

\* main, up to the call of get_graph: sys.exit(1) unless the remote is an
\* https URL of the GitHub server.
MainRemote ==
    /\ pc = "main"
    /\ pc' = IF env.remote = "ok" THEN "get_graph" ELSE "exit"
    /\ UNCHANGED <<graph, env, packages, log, exc, payload, sent, run, prev>>

\* main: get_graph, then submit_graph or sys.exit(1).
GetGraph ==
    /\ pc = "get_graph"
    /\ pc' = IF get_graph(env) # "none" THEN "submit_graph" ELSE "exit"
    /\ UNCHANGED <<graph, env, packages, log, exc, payload, sent, run, prev>>

\* submit_graph, up to the call of process_graph: it returns when there is
\* neither GITHUB_REF nor a branch checked out; graph["graph"]["nodes"]
\* raises KeyError when the document has not that shape.
ResolveRef ==
    /\ pc = "submit_graph"
    /\ IF ~env.githubRef /\ env.detached
       THEN pc' = "return" /\ exc' = exc
       ELSE IF ~env.shapeOk
       THEN pc' = "raise" /\ exc' = Exception("KeyError", "submit_graph")
       ELSE pc' = "process_graph" /\ exc' = exc
    /\ UNCHANGED <<graph, env, packages, log, payload, sent, run, prev>>

ProcessGraph ==
    /\ pc = "process_graph"
    /\ LET r == process_graph(graph) IN
        /\ packages' = r.packages
        /\ exc' = IF r.err = "none" THEN exc ELSE Exception(r.err, "process_graph")
        /\ pc' = IF r.err = "none" THEN "build_tree" ELSE "raise"
    /\ UNCHANGED <<graph, env, log, payload, sent, run, prev>>

BuildTreeStep ==
    /\ pc = "build_tree"
    /\ LET r == build_tree(packages) IN
        /\ packages' = r.packages
        /\ log' = r.log
        /\ exc' = IF r.err = "none" THEN exc ELSE Exception(r.err, "build_tree")
        /\ pc' = IF r.err = "none" THEN "add_relationship" ELSE "raise"
    /\ UNCHANGED <<graph, env, payload, sent, run, prev>>

AddRelationship ==
    /\ pc = "add_relationship"
    /\ packages' = add_relationship(packages)
    /\ pc' = "token"
    /\ UNCHANGED <<graph, env, log, exc, payload, sent, run, prev>>

\* submit_graph returns when neither GITHUB_TOKEN nor GH_TOKEN is set.
GetToken ==
    /\ pc = "token"
    /\ pc' = IF env.githubToken \/ env.ghToken THEN "assemble" ELSE "return"
    /\ UNCHANGED <<graph, env, packages, log, exc, payload, sent, run, prev>>

\* The payload is built; unpacking owner and reponame from the remote's
\* path and conanfile_path.relative_to(repo.working_dir) raise ValueError.
Assemble ==
    /\ pc = "assemble"
    /\ IF ~env.remotePathOk \/ ~env.manifestInRepo
       THEN pc' = "raise" /\ exc' = Exception("ValueError", "submit_graph")
            /\ payload' = payload
       ELSE \E seed \in HashSeeds, jobid \in JobIds, now \in Clock :
                /\ payload' = <<Snapshot(env, packages, seed, jobid, now)>>
                /\ pc' = "send"
                /\ exc' = exc
    /\ UNCHANGED <<graph, env, packages, log, sent, run, prev>>

\* Send without the test of dry_run
SendAlways ==
    /\ pc = "send"
    /\ sent' = sent + 1
    /\ pc' = "done"
    /\ UNCHANGED <<graph, env, packages, log, exc, payload, run, prev>>

\* if not dry_run: session.send(prepared)
Send ==
    /\ pc = "send"
    /\ sent' = IF env.dryRun THEN sent ELSE sent + 1
    /\ pc' = "done"
    /\ UNCHANGED <<graph, env, packages, log, exc, payload, run, prev>>

Next ==
    \/ MainRemote
    \/ GetGraph
    \/ ResolveRef
    \/ ProcessGraph
    \/ BuildTreeStep
    \/ AddRelationship
    \/ GetToken
    \/ Assemble
    \/ Send

Spec == Init /\ [][Next]_vars

\* The program is run again on the same inputs, in a new process.
Rerun ==
    /\ pc = "done"
    /\ run = 1
    /\ run' = 2
    /\ prev' = payload
    /\ pc' = "main"
    /\ packages' = <<>>
    /\ log' = <<>>
    /\ payload' = <<>>
    /\ UNCHANGED <<graph, env, exc, sent>>

NextTwice == Next \/ Rerun

SpecTwice == Init /\ [][NextTwice]_vars

(* ------------------------------------------------------------------ *)
(* What the properties below speak of.                                  *)
(* ------------------------------------------------------------------ *)

Count(s, tok) == Cardinality({i \in 1..Len(s) : s[i] = tok})

\* A node with a required field that cannot be parsed: an id that is not an
\* integer, a ref that is no string or holds several "/" or several "#".
Malformed(entry) ==
    \/ Has(entry, "id") /\ PyInt(Get(entry, "id")).err # "none"
    \/ /\ Has(entry, "ref")
       /\ \/ Get(entry, "ref").t # "str"
          \/ Count(Get(entry, "ref").s, "/") > 1
          \/ Count(Get(entry, "ref").s, "#") > 1

\* A node with both required fields, neither of them malformed.
WellFormed(entry) == Has(entry, "id") /\ Has(entry, "ref") /\ ~Malformed(entry)

\* process_graph has been called and has returned or raised.
AfterProcessGraph ==
    \/ pc \in {"build_tree", "add_relationship", "token", "assemble", "send", "done"}
    \/ pc = "raise" /\ exc.in \in {"process_graph", "build_tree"}

\* build_tree has been called and has returned or raised.
AfterBuildTree ==
    \/ pc \in {"add_relationship", "token", "assemble", "send", "done"}
    \/ pc = "raise" /\ exc.in = "build_tree"

\* add_relationship has returned.
AfterAddRelationship == pc \in {"token", "assemble", "send", "done"}

\* The payload is assembled.
Assembled == payload # <<>>

Indexes == KeySet(packages)

\* C1: in process_graph a malformed node affects only itself: when one node
\* of the graph is malformed and the others are well formed, process_graph
\* returns normally and the table holds a record for every well-formed node.
C1_MalformedNodeAffectsOnlyItself ==
    (/\ AfterProcessGraph
     /\ Cardinality({i \in 1..Len(graph) : Malformed(graph[i].v)}) = 1
     /\ \A i \in 1..Len(graph) : Malformed(graph[i].v) \/ WellFormed(graph[i].v))
    => /\ exc.in # "process_graph"
       /\ \A i \in 1..Len(graph) :
            WellFormed(graph[i].v) => Has(packages, NumeralValue(graph[i].k))

RECURSIVE FirstAttach(_, _, _)
RECURSIVE FirstAttachChildren(_, _, _)
\* The traversal in which a record is attached at its first visit only and a
\* later visit is a no-op: the parents it gives the records of pk.
FirstAttach(pk, tree, index) ==
    IF ~Has(pk, index) \/ Get(pk, index).parent # NoParent THEN pk
    ELSE FirstAttachChildren(Put(pk, index, [Get(pk, index) EXCEPT !.parent = tree]),
                             index, Get(pk, index).dependencies)

FirstAttachChildren(pk, index, deps) ==
    IF deps = <<>> THEN pk
    ELSE FirstAttachChildren(FirstAttach(pk, index, Head(deps)), index, Tail(deps))

\* The table as process_graph left it: no record attached
Detached(pk) == [i \in 1..Len(pk) |-> Item(pk[i].k, [pk[i].v EXCEPT !.parent = NoParent])]

\* C2: in build_tree, re-visiting an attached record is a no-op: the record
\* keeps the parent of its first attachment, no error is raised, and every
\* attached record has one parent in an acyclic tree.
C2_RevisitIsNoOp ==
    AfterBuildTree
    => /\ exc.in # "build_tree"
       /\ \A i \in Indexes :
            Get(packages, i).parent = Get(FirstAttach(Detached(packages), TreeRoot, 0), i).parent
       /\ \A i \in Indexes : ~InPath(packages, Get(packages, i).parent, i)

\* The entry of the payload's "resolved" dict under the key name
ResolvedEntry(name) == Get(payload[1].resolved, name)

\* C3: for the example graph (root 0, ref "conanfile", listing node 1; node 1
\* libA/1.2#abc without dependencies) "resolved" has exactly one entry, keyed
\* libA, with package_url pkg:conan/libA@1.2?rrev=abc, relationship direct
\* and an empty dependencies list.
C3_ExamplePayload ==
    (Assembled /\ graph = ExampleGraph)
    => /\ Keys(payload[1].resolved) = <<<<"libA">>>>
       /\ Get(ResolvedEntry(<<"libA">>).data, "package_url")
            = JStr(<<"pkg", ":", "conan", "/", "libA", "@", "1.2", "?", "rrev", "=", "abc">>)
       /\ Has(ResolvedEntry(<<"libA">>).data, "relationship")
       /\ Get(ResolvedEntry(<<"libA">>).data, "relationship") = JStr(<<"direct">>)
       /\ ResolvedEntry(<<"libA">>).dependencies = <<>>

\* The records attached below the root record, the record of index 0
BelowRoot == {i \in Indexes : i # 0 /\ InPath(packages, Get(packages, i).parent, 0)}

\* C4: after process_graph, build_tree and add_relationship every record
\* attached below the root record has a relationship, "direct" exactly when
\* its parent is the root record and "indirect" otherwise, and a second
\* add_relationship changes no label.
C4_RelationshipLabels ==
    AfterAddRelationship
    => /\ \A i \in BelowRoot :
            /\ Get(packages, i).relationship \in {JStr(<<"direct">>), JStr(<<"indirect">>)}
            /\ Get(packages, i).relationship = JStr(<<"direct">>)
                   <=> Get(packages, i).parent = 0
       /\ add_relationship(packages) = packages

\* Both labels occur, one of them on a record that several records declare.
C4_Witness ==
    /\ AfterAddRelationship
    /\ \E i, j \in BelowRoot :
        /\ Get(packages, i).relationship = JStr(<<"direct">>)
        /\ Get(packages, j).relationship = JStr(<<"indirect">>)
        /\ \E a, b \in Indexes :
            /\ a # b
            /\ \E x \in 1..Len(Get(packages, a).dependencies) :
                    Get(packages, a).dependencies[x] = j
            /\ \E y \in 1..Len(Get(packages, b).dependencies) :
                    Get(packages, b).dependencies[y] = j

\* The run met none of the fatal conditions: the remote is the expected
\* host, the graph and manifest were obtained, there is a ref, and a token.
NoFatalCondition ==
    /\ env.remote = "ok"
    /\ get_graph(env) # "none"
    /\ env.githubRef \/ ~env.detached
    /\ env.githubToken \/ env.ghToken

\* C5: the send happens at most once and only after the payload is assembled;
\* never in a dry run and never on a fatal path.
C5_SendOnceAfterAssembly ==
    [][sent' # sent =>
        /\ sent = 0
        /\ sent' = 1
        /\ Assembled
        /\ payload' = payload
        /\ ~env.dryRun
        /\ NoFatalCondition]_vars

\* A live run has sent its payload.
C5_Witness == pc = "done" /\ sent = 1 /\ Assembled /\ ~env.dryRun

\* The payload but for job.id and scanned
ModuloJobAndTime(p) == [p EXCEPT !.job.id = "", !.scanned = ""]

\* C6: two runs on the same graph in the same environment assemble payloads
\* equal in every field but job.id and scanned, the order of every
\* "dependencies" list and of the keys of "resolved" included.
C6_SamePayloadTwice ==
    (run = 2 /\ Assembled) => ModuloJobAndTime(payload[1]) = ModuloJobAndTime(prev[1])

\* C7: the "metadata" mapping of an entry never holds more fields than the
\* service's ceiling, whatever ceiling of at least one field that is: it
\* holds at most one field, a field of the record's metadata, and every
\* record not named conanfile still has its entry.
C7_MetadataWithinCeiling ==
    Assembled
    => /\ \A r \in 1..Len(payload[1].resolved) :
            LET data == payload[1].resolved[r].v.data IN
            Has(data, "metadata") => Len(Get(data, "metadata").m) <= 1
       /\ \A i \in Indexes :
            LET package == Get(packages, i) IN
            package.name # <<"conanfile">>
            => /\ Has(payload[1].resolved, package.name)
               /\ LET data == ResolvedEntry(package.name).data IN
                  Has(data, "metadata")
                  => KeySet(Get(data, "metadata").m) \subseteq KeySet(package.metadata)

\* An entry with one metadata field, of a record whose metadata has many.
C7_Witness ==
    /\ Assembled
    /\ \E i \in Indexes :
        LET package == Get(packages, i) IN
        /\ Len(package.metadata) >= 5
        /\ Has(payload[1].resolved, package.name)
        /\ Has(ResolvedEntry(package.name).data, "metadata")
        /\ Len(Get(ResolvedEntry(package.name).data, "metadata").m) = 1

\* The declared dependencies of record i
DepSet(i) == {Get(packages, i).dependencies[x] : x \in 1..Len(Get(packages, i).dependencies)}

RECURSIVE Closure(_)
\* The records that S reaches along declared dependencies, S included
Closure(S) ==
    LET T == S \cup {d \in Indexes : \E i \in S : d \in DepSet(i)}
    IN IF T = S THEN S ELSE Closure(T)

\* The declared dependencies hold a cycle that the root record reaches.
CycleReachable ==
    \E i \in Closure({0} \cap Indexes) : i \in Closure(DepSet(i) \cap Indexes)

\* C8: a dependency id without a record does not stop build_tree: the edge is
\* dropped and reported, and the other dependencies of the same record that
\* have a record are still attached. build_tree raises only on a cycle of
\* the declared dependencies, and then LoopError.
C8_MissingDependencyDropped ==
    AfterBuildTree
    => /\ exc.in = "build_tree" => (exc.type = "LoopError" /\ CycleReachable)
       /\ exc.in # "build_tree" =>
            \A i \in Indexes :
                Get(packages, i).parent # NoParent =>
                    \A d \in DepSet(i) :
                        IF d \in Indexes
                        THEN Get(packages, d).parent # NoParent
                        ELSE \E x \in 1..Len(log) : log[x] = d

\* build_tree has returned; a record declares an id without a record and,
\* after it, an id with one, which is attached to that record.
C8_Witness ==
    /\ AfterBuildTree
    /\ exc = NoException
    /\ \E i \in Indexes :
        LET deps == Get(packages, i).dependencies IN
        \E x, y \in 1..Len(deps) :
            /\ x < y
            /\ deps[x] \notin Indexes
            /\ deps[y] \in Indexes
            /\ Get(packages, deps[y]).parent = i
            /\ \E z \in 1..Len(log) : log[z] = deps[x]

\* C9: every entry of "resolved" encodes a non-root record attached in the
\* tree: the root record (index 0) has no entry, and neither has a record
\* of the table that the root does not reach.
C9_ResolvedIsTheTree ==
    Assembled
    => \A i \in Indexes :
            Has(payload[1].resolved, Get(packages, i).name)
            => i # 0 /\ IsDescendant(packages, i)

\* C10: no declared edge is lost: for every attached record with an entry
\* and every declared dependency that has a record, the entry's
\* "dependencies" list holds the dependency identifier of that record.
C10_NoEdgeLost ==
    Assembled
    => \A i \in Indexes :
            (IsDescendant(packages, i) /\ Has(payload[1].resolved, Get(packages, i).name))
            => \A d \in DepSet(i) \cap Indexes :
                    \E x \in 1..Len(ResolvedEntry(Get(packages, i).name).dependencies) :
                        ResolvedEntry(Get(packages, i).name).dependencies[x]
                            = make_purl(Get(packages, d), TRUE)

====
